---- MODULE Spec2Model ----
(***************************************************************************)
(* A state-machine model of dashboard.py, the OgaDoctor Streamlit          *)
(* dashboard: the session-scoped patient queue (st.session_state.patients),*)
(* the inventory table (st.session_state.inventory), the selected page     *)
(* and the button handlers that mutate them.  One action is one script run *)
(* triggered by one widget; a run that a handler ends with st.rerun() is   *)
(* followed by the run st.rerun() asks for (Rerun).  SpecRun takes the     *)
(* Live Queue page's run apart into its statements.                        *)
(***************************************************************************)
EXTENDS Integers, Sequences, FiniteSets, TLC

VARIABLES
    patients,   \* st.session_state.patients: a list of patient dicts
    inventory,  \* st.session_state.inventory: the rows of the DataFrame
    page,       \* the value of the sidebar radio
    clock,      \* what datetime.now() returns in the next script run
    clicked,    \* the widget whose event triggered the latest script run
    session_keys,   \* the keys st.session_state holds
    search,         \* Inventory page: the text of "Search medication"
    filter_option,  \* Inventory page: the value of the "Filter" selectbox
    df_display,     \* Inventory page: the filtered copy the latest run lists
    reorder_qty,    \* the reorder_qty the latest run computed: <<>> or <<q>>
    pc,         \* where the script run in progress is ("idle": none is)
    loop_i,     \* the i of "for i, patient in enumerate(...)"
    shown,      \* what the latest run has put on the Live Queue page so far
    mutations   \* how many queue mutations the latest run has made

\* The Inventory page's widgets and locals.
viewVars == <<search, filter_option, df_display, reorder_qty>>

\* The script run in progress and its output.
runVars == <<pc, loop_i, shown, mutations>>

vars ==
    <<patients, inventory, page, clock, clicked, session_keys, viewVars,
      runVars>>

\* Bounds of the model.
MaxClock == 3
MaxStock == 7

----------------------------------------------------------------------------
\* Python dict and list primitives, as the script uses them.

\* d[k] = v on a dict: adds the key or overwrites its value.
SetKey(d, k, v) == [x \in (DOMAIN d) \cup {k} |-> IF x = k THEN v ELSE d[x]]

\* list.insert(idx, x) for 0 <= idx <= len(list) (idx is 0-based).
insert(list, idx, x) ==
    SubSeq(list, 1, idx) \o <<x>> \o SubSeq(list, idx + 1, Len(list))

\* list.append(x)
append(list, x) == list \o <<x>>

\* list.pop(idx) for 0 <= idx < len(list) (idx is 0-based): the list left.
pop(list, idx) == SubSeq(list, 1, idx) \o SubSeq(list, idx + 2, Len(list))

\* The 0-based indices enumerate(list) yields.
enumerate(list) == 0 .. (Len(list) - 1)

----------------------------------------------------------------------------
\* Constant data of the script.

Pages == {"Live Queue", "Analytics", "Inventory", "Settings"}

SAMPLE_PATIENTS == <<
    [name |-> "Aisha Musa", age |-> 28, phone |-> "+234 803 XXX XXXX",
     symptoms |-> "Fever for 3 days, chills, body pain",
     severity |-> "Strong", duration |-> "3 days",
     possible |-> "Malaria-like symptoms",
     drugs |-> "Coartem / Lone Star / Paracetamol", priority |-> "URGENT"],
    [name |-> "Chukwudi Obi", age |-> 45, phone |-> "+234 806 XXX XXXX",
     symptoms |-> "Persistent cough and chest congestion",
     severity |-> "Moderate", duration |-> "5 days",
     possible |-> "Respiratory infection",
     drugs |-> "Amoxicillin / Cough syrup", priority |-> "MODERATE"],
    [name |-> "Ngozi Eze", age |-> 34, phone |-> "+234 809 XXX XXXX",
     symptoms |-> "Mild headache and tiredness",
     severity |-> "Mild", duration |-> "1 day",
     possible |-> "Stress/fatigue",
     drugs |-> "Paracetamol / Multivitamin", priority |-> "LOW"] >>

\* One row of the inventory DataFrame before its derived columns.  A
\* medication name is the sequence of its characters, so that the search can
\* look inside it.
Row(m, cs, rp, md, up) ==
    [medication |-> m, current_stock |-> cs, reorder_point |-> rp,
     monthly_demand |-> md, unit_price |-> up]

InventorySeed == <<
    Row(<<"P", "a", "r", "a", "c", "e", "t", "a", "m", "o", "l">>,
        45, 20, 120, 50),
    Row(<<"A", "m", "o", "x", "i", "c", "i", "l", "l", "i", "n">>,
        12, 15, 35, 300),
    Row(<<"C", "h", "l", "o", "r", "o", "q", "u", "i", "n", "e">>,
        8, 10, 25, 200),
    Row(<<"V", "i", "t", "a", "m", "i", "n", " ", "C">>,
        65, 25, 40, 150),
    Row(<<"I", "b", "u", "p", "r", "o", "f", "e", "n">>,
        28, 20, 85, 80),
    Row(<<"C", "o", "u", "g", "h", " ", "S", "y", "r", "u", "p">>,
        15, 12, 30, 250),
    Row(<<"A", "n", "t", "a", "c", "i", "d">>,
        42, 15, 50, 100),
    Row(<<"O", "R", "S">>,
        55, 30, 95, 50),
    Row(<<"A", "s", "p", "i", "r", "i", "n">>,
        18, 10, 22, 120),
    Row(<<"M", "u", "l", "t", "i", "v", "i", "t", "a", "m", "i", "n">>,
        38, 20, 45, 200) >>

----------------------------------------------------------------------------
\* Inventory: the derived columns.

statusOf_ByDemand(row) ==
    IF row.current_stock <= row.monthly_demand THEN "Low Stock" ELSE "OK"

statusOf_Strict(row) ==
    IF row.current_stock < row.reorder_point THEN "Low Stock" ELSE "OK"

\* The lambda of the 'status' column: low when stock is at or under the
\* reorder point.
statusOf(row) ==
    IF row.current_stock <= row.reorder_point THEN "Low Stock" ELSE "OK"

\* inventory['status'] = inventory.apply(lambda row: ..., axis=1)
WithStatusColumn(df) ==
    [r \in DOMAIN df |-> SetKey(df[r], "status", statusOf(df[r]))]

\* inventory['total_value'] = inventory['current_stock'] * inventory['unit_price']
WithTotalValueColumn(df) ==
    [r \in DOMAIN df |->
        SetKey(df[r], "total_value", df[r].current_stock * df[r].unit_price)]

\* What rendering page p does to the inventory: only the Inventory page's
\* analytics tab writes session state (the total_value column).
RenderInventory(p, df) ==
    IF p = "Inventory" THEN WithTotalValueColumn(df) ELSE df

----------------------------------------------------------------------------
\* Inventory: the search and the status filter.  Texts are sequences of
\* characters.

UpperCase == <<"A", "B", "C", "D", "E", "F", "G", "H", "I", "J", "K", "L", "M", "N", "O", "P", "Q", "R", "S", "T", "U", "V", "W", "X", "Y", "Z">>

LowerCase == <<"a", "b", "c", "d", "e", "f", "g", "h", "i", "j", "k", "l", "m", "n", "o", "p", "q", "r", "s", "t", "u", "v", "w", "x", "y", "z">>

\* Each upper-case letter's lower-case letter.
Fold ==
    [c \in {UpperCase[k] : k \in DOMAIN UpperCase} |->
        LowerCase[CHOOSE k \in DOMAIN UpperCase : UpperCase[k] = c]]

\* The character c with its case folded.
lower(c) == IF c \in DOMAIN Fold THEN Fold[c] ELSE c

\* pat occurs in text as a plain substring, ignoring case (what
\* str.contains(pat, case=False, regex=False) would compute).
contains_Literal(text, pat) ==
    \E k \in 0 .. (Len(text) - Len(pat)) :
        \A j \in DOMAIN pat : lower(pat[j]) = lower(text[k + j])

\* Series.str.contains(pat, case=False) on one value: pat is a regular
\* expression (the default regex=True) searched in text, ignoring case.  For
\* patterns made of letters, digits, spaces and ".": a "." matches any
\* character, every other character matches itself in either case.
contains(text, pat) ==
    \E k \in 0 .. (Len(text) - Len(pat)) :
        \A j \in DOMAIN pat :
            pat[j] = "." \/ lower(pat[j]) = lower(text[k + j])

\* df.copy(): the rows with their index labels (0-based).
copy(df) == [n \in DOMAIN df |-> [idx |-> n - 1, row |-> df[n]]]

\* The frame the Current Stock tab lists: the copy, narrowed by the search
\* text when there is one, then by the status filter unless it is "All".
Filter(df, s, opt) ==
    LET d0 == copy(df)
        d1 == IF s # <<>>
              THEN SelectSeq(d0, LAMBDA e : contains(e.row.medication, s))
              ELSE d0
    IN  IF opt = "Low Stock"
        THEN SelectSeq(d1, LAMBDA e : e.row.status = "Low Stock")
        ELSE IF opt = "OK"
        THEN SelectSeq(d1, LAMBDA e : e.row.status = "OK")
        ELSE d1

FilterOptions == {"All", "Low Stock", "OK"}

\* The search texts tried on the dashboard.
SearchTexts == {<<>>, <<"c", "o">>, <<".">>}

\* What a script run that renders page p with search text s and filter opt
\* leaves of the Inventory page's widgets and locals: off the Inventory page
\* the widgets are not rendered and fall back to their defaults.
SetView(p, df, s, opt, qty) ==
    /\ search' = (IF p = "Inventory" THEN s ELSE <<>>)
    /\ filter_option' = (IF p = "Inventory" THEN opt ELSE "All")
    /\ df_display' = (IF p = "Inventory" THEN Filter(df, s, opt) ELSE <<>>)
    /\ reorder_qty' = (IF p = "Inventory" THEN qty ELSE <<>>)

\* The first run renders the Live Queue.
InitView ==
    /\ search = <<>>
    /\ filter_option = "All"
    /\ df_display = <<>>
    /\ reorder_qty = <<>>

----------------------------------------------------------------------------
\* What the Live Queue page puts on screen.

\* The keys of a patient dict that its card displays.
DisplayedKeys ==
    {"priority", "name", "age", "phone", "symptoms", "severity", "duration",
     "possible", "drugs", "time"}

\* The card of one patient.
Card(patient) == [k \in DisplayedKeys |-> patient[k]]

\* urgent_count = sum(1 for p in patients if p.get('priority') == 'URGENT')
urgent_count(list) ==
    Cardinality({n \in DOMAIN list : list[n].priority = "URGENT"})

\* A run that has displayed nothing yet.
NoView == [urgent |-> 0, total |-> 0, rows |-> <<>>]

\* The page rendered in full from the queue: the two counters and one card
\* per patient, in list order.
View(list) ==
    [urgent |-> urgent_count(list), total |-> Len(list),
     rows |-> [n \in DOMAIN list |-> Card(list[n])]]

\* What a completed run that renders page p leaves on the Live Queue page.
Rendered(p, list) == IF p = "Live Queue" THEN View(list) ELSE NoView

\* The script run of this step reaches the end of the script, with page'
\* rendered in full.
RunCompletes ==
    /\ pc' = "idle"
    /\ loop_i' = 0
    /\ mutations' = 0
    /\ shown' = Rendered(page', patients')

\* The script run of this step ends at its handler's st.rerun(): it made its
\* one mutation after drawing the counters and the first n cards from the
\* queue as it was (list), the loop variable at i, and the run st.rerun()
\* asks for is still to come.
RunAborted(list, n, i) ==
    /\ pc' = "rerun"
    /\ loop_i' = i
    /\ mutations' = 1
    /\ shown' = [View(list) EXCEPT !.rows = SubSeq(@, 1, n)]

----------------------------------------------------------------------------
\* The widget that triggered a script run: its key and, for the per-patient
\* buttons keyed f"..._{i}", the index i (-1 for the other widgets).
Widget(k, i) == [key |-> k, i |-> i]

\* The keys the script puts in st.session_state.
SessionKeys == {"patients", "consultation_history", "inventory"}

EnsurePatients_Unguarded(keys, q) == <<>>

\* if 'patients' not in st.session_state: st.session_state.patients = []
EnsurePatients(keys, q) == IF "patients" \notin keys THEN <<>> ELSE q

\* if 'inventory' not in st.session_state: the seeded frame with its status
\* column.
EnsureInventory(keys, df) ==
    IF "inventory" \notin keys THEN WithStatusColumn(InventorySeed) ELSE df

\* The queue and the inventory once a run is past its session-state block.
Patients == EnsurePatients(session_keys, patients)

Inventory == EnsureInventory(session_keys, inventory)

\* Page p is on screen and takes a widget event: some run has rendered it
\* and no run asked for by st.rerun() is outstanding.
OnPage(p) == session_keys # {} /\ pc = "idle" /\ page = p

\* A new session: st.session_state is empty and nothing has run.
Init ==
    /\ session_keys = {}
    /\ patients = <<>>
    /\ inventory = <<>>
    /\ page = "Live Queue"
    /\ clock = 0
    /\ clicked = Widget("none", -1)
    /\ InitView
    /\ pc = "idle"
    /\ loop_i = 0
    /\ mutations = 0
    /\ shown = NoView

\* The first script run of the session: it fills st.session_state and renders
\* the default page.
FirstRun ==
    /\ session_keys = {}
    /\ session_keys' = session_keys \cup SessionKeys
    /\ patients' = Patients
    /\ inventory' = RenderInventory(page, Inventory)
    /\ UNCHANGED <<page, clock, clicked, viewVars>>
    /\ RunCompletes

----------------------------------------------------------------------------
\* Page 1, Live Queue: the test buttons.

NewPatient_Aliased(k, now) ==
    LET same == {n \in DOMAIN patients :
                    /\ patients[n].name = SAMPLE_PATIENTS[k + 1].name
                    /\ "response_time" \in DOMAIN patients[n]}
        template == IF same = {} THEN SAMPLE_PATIENTS[k + 1]
                    ELSE patients[CHOOSE n \in same : TRUE]
    IN  SetKey(SetKey(template, "time", now), "status", "New")

\* patient = SAMPLE_PATIENTS[k].copy(); patient['time'] = datetime.now();
\* patient['status'] = 'New'   (k is 0-based)
NewPatient(k, now) ==
    SetKey(SetKey(SAMPLE_PATIENTS[k + 1], "time", now), "status", "New")

AddUrgentPatient_Append ==
    /\ OnPage("Live Queue")
    /\ clock < MaxClock
    /\ patients' = append(Patients, NewPatient(0, clock))
    /\ clock' = clock + 1
    /\ clicked' = Widget("Add URGENT Patient", -1)
    /\ session_keys' = session_keys \cup SessionKeys
    /\ inventory' = Inventory
    /\ UNCHANGED <<page, viewVars>>
    /\ RunAborted(Patients, 0, 0)

\* "Add URGENT Patient": the new case goes to the start of the list.
AddUrgentPatient ==
    /\ OnPage("Live Queue")
    /\ clock < MaxClock
    /\ patients' = insert(Patients, 0, NewPatient(0, clock))
    /\ clock' = clock + 1
    /\ clicked' = Widget("Add URGENT Patient", -1)
    /\ session_keys' = session_keys \cup SessionKeys
    /\ inventory' = Inventory
    /\ UNCHANGED <<page, viewVars>>
    /\ RunAborted(Patients, 0, 0)

AddModeratePatient_Insert0 ==
    /\ OnPage("Live Queue")
    /\ clock < MaxClock
    /\ patients' = insert(Patients, 0, NewPatient(1, clock))
    /\ clock' = clock + 1
    /\ clicked' = Widget("Add MODERATE Patient", -1)
    /\ session_keys' = session_keys \cup SessionKeys
    /\ inventory' = Inventory
    /\ UNCHANGED <<page, viewVars>>
    /\ RunAborted(Patients, 0, 0)

\* "Add MODERATE Patient": the new case goes to the end of the list.
AddModeratePatient ==
    /\ OnPage("Live Queue")
    /\ clock < MaxClock
    /\ patients' = append(Patients, NewPatient(1, clock))
    /\ clock' = clock + 1
    /\ clicked' = Widget("Add MODERATE Patient", -1)
    /\ session_keys' = session_keys \cup SessionKeys
    /\ inventory' = Inventory
    /\ UNCHANGED <<page, viewVars>>
    /\ RunAborted(Patients, 0, 0)

AddMildPatient_Insert0 ==
    /\ OnPage("Live Queue")
    /\ clock < MaxClock
    /\ patients' = insert(Patients, 0, NewPatient(2, clock))
    /\ clock' = clock + 1
    /\ clicked' = Widget("Add MILD Patient", -1)
    /\ session_keys' = session_keys \cup SessionKeys
    /\ inventory' = Inventory
    /\ UNCHANGED <<page, viewVars>>
    /\ RunAborted(Patients, 0, 0)

\* "Add MILD Patient": the new case goes to the end of the list.
AddMildPatient ==
    /\ OnPage("Live Queue")
    /\ clock < MaxClock
    /\ patients' = append(Patients, NewPatient(2, clock))
    /\ clock' = clock + 1
    /\ clicked' = Widget("Add MILD Patient", -1)
    /\ session_keys' = session_keys \cup SessionKeys
    /\ inventory' = Inventory
    /\ UNCHANGED <<page, viewVars>>
    /\ RunAborted(Patients, 0, 0)

----------------------------------------------------------------------------
\* Page 1, Live Queue: the buttons of the patient at index i of the list
\* (one set per i that enumerate(st.session_state.patients) yields).

Respond_BackToNew(patient, s, now) ==
    SetKey(SetKey(patient, "status", IF patient.status = s THEN "New" ELSE s),
           "response_time", now)

\* patient['status'] = s; patient['response_time'] = datetime.now()
Respond(patient, s, now) ==
    SetKey(SetKey(patient, "status", s), "response_time", now)

StockAvailable_NoStamp(i) ==
    /\ OnPage("Live Queue")
    /\ i \in enumerate(Patients)
    /\ clock < MaxClock
    /\ patients' = [Patients EXCEPT ![i + 1] = SetKey(@, "status", "Confirmed")]
    /\ clock' = clock + 1
    /\ clicked' = Widget("ok", i)
    /\ session_keys' = session_keys \cup SessionKeys
    /\ inventory' = Inventory
    /\ UNCHANGED <<page, viewVars>>
    /\ RunAborted(Patients, i + 1, i)

StockAvailable_StampOnce(i) ==
    /\ OnPage("Live Queue")
    /\ i \in enumerate(Patients)
    /\ clock < MaxClock
    /\ patients' = [Patients EXCEPT
            ![i + 1] = IF @.status = "New"
                       THEN Respond(@, "Confirmed", clock)
                       ELSE SetKey(@, "status", "Confirmed")]
    /\ clock' = clock + 1
    /\ clicked' = Widget("ok", i)
    /\ session_keys' = session_keys \cup SessionKeys
    /\ inventory' = Inventory
    /\ UNCHANGED <<page, viewVars>>
    /\ RunAborted(Patients, i + 1, i)

\* "Stock Available", key ok_{i}
StockAvailable(i) ==
    /\ OnPage("Live Queue")
    /\ i \in enumerate(Patients)
    /\ clock < MaxClock
    /\ patients' = [Patients EXCEPT ![i + 1] = Respond(@, "Confirmed", clock)]
    /\ clock' = clock + 1
    /\ clicked' = Widget("ok", i)
    /\ session_keys' = session_keys \cup SessionKeys
    /\ inventory' = Inventory
    /\ UNCHANGED <<page, viewVars>>
    /\ RunAborted(Patients, i + 1, i)

OutOfStock_Removes(i) ==
    /\ OnPage("Live Queue")
    /\ i \in enumerate(Patients)
    /\ clock < MaxClock
    /\ patients' = pop(Patients, i)
    /\ clock' = clock + 1
    /\ clicked' = Widget("no", i)
    /\ session_keys' = session_keys \cup SessionKeys
    /\ inventory' = Inventory
    /\ UNCHANGED <<page, viewVars>>
    /\ RunAborted(Patients, i + 1, i)

OutOfStock_SetsPriority(i) ==
    /\ OnPage("Live Queue")
    /\ i \in enumerate(Patients)
    /\ clock < MaxClock
    /\ patients' = [Patients EXCEPT
            ![i + 1] = SetKey(SetKey(@, "priority", "Referred"),
                              "response_time", clock)]
    /\ clock' = clock + 1
    /\ clicked' = Widget("no", i)
    /\ session_keys' = session_keys \cup SessionKeys
    /\ inventory' = Inventory
    /\ UNCHANGED <<page, viewVars>>
    /\ RunAborted(Patients, i + 1, i)

OutOfStock_OnlyIfNew(i) ==
    /\ OnPage("Live Queue")
    /\ i \in enumerate(Patients)
    /\ clock < MaxClock
    /\ patients' = [Patients EXCEPT
            ![i + 1] = IF @.status = "New"
                       THEN Respond(@, "Referred", clock)
                       ELSE @]
    /\ clock' = clock + 1
    /\ clicked' = Widget("no", i)
    /\ session_keys' = session_keys \cup SessionKeys
    /\ inventory' = Inventory
    /\ UNCHANGED <<page, viewVars>>
    /\ RunAborted(Patients, i + 1, i)

\* "Out of Stock", key no_{i}
OutOfStock(i) ==
    /\ OnPage("Live Queue")
    /\ i \in enumerate(Patients)
    /\ clock < MaxClock
    /\ patients' = [Patients EXCEPT ![i + 1] = Respond(@, "Referred", clock)]
    /\ clock' = clock + 1
    /\ clicked' = Widget("no", i)
    /\ session_keys' = session_keys \cup SessionKeys
    /\ inventory' = Inventory
    /\ UNCHANGED <<page, viewVars>>
    /\ RunAborted(Patients, i + 1, i)

\* "Call Patient", key call_{i}: an info message only.
CallPatient(i) ==
    /\ OnPage("Live Queue")
    /\ i \in enumerate(Patients)
    /\ clicked' = Widget("call", i)
    /\ session_keys' = session_keys \cup SessionKeys
    /\ patients' = Patients
    /\ inventory' = Inventory
    /\ UNCHANGED <<page, clock, viewVars>>
    /\ RunCompletes

\* "Send WhatsApp", key wa_{i}: an info message only.
SendWhatsApp(i) ==
    /\ OnPage("Live Queue")
    /\ i \in enumerate(Patients)
    /\ clicked' = Widget("wa", i)
    /\ session_keys' = session_keys \cup SessionKeys
    /\ patients' = Patients
    /\ inventory' = Inventory
    /\ UNCHANGED <<page, clock, viewVars>>
    /\ RunCompletes

MarkComplete_PopLast(i) ==
    /\ OnPage("Live Queue")
    /\ i \in enumerate(Patients)
    /\ patients' = pop(Patients, Len(Patients) - 1)
    /\ clicked' = Widget("done", i)
    /\ session_keys' = session_keys \cup SessionKeys
    /\ inventory' = Inventory
    /\ UNCHANGED <<page, clock, viewVars>>
    /\ RunAborted(Patients, i + 1, i)

\* "Mark Complete", key done_{i}: st.session_state.patients.pop(i)
MarkComplete(i) ==
    /\ OnPage("Live Queue")
    /\ i \in enumerate(Patients)
    /\ patients' = pop(Patients, i)
    /\ clicked' = Widget("done", i)
    /\ session_keys' = session_keys \cup SessionKeys
    /\ inventory' = Inventory
    /\ UNCHANGED <<page, clock, viewVars>>
    /\ RunAborted(Patients, i + 1, i)

\* The run st.rerun() asked for: no button is pressed in it, and it draws the
\* page from the queue as the handler left it.
Rerun ==
    /\ session_keys # {}
    /\ pc = "rerun"
    /\ clicked' = Widget("none", -1)
    /\ session_keys' = session_keys \cup SessionKeys
    /\ patients' = Patients
    /\ inventory' = RenderInventory(page, Inventory)
    /\ UNCHANGED <<page, clock, viewVars>>
    /\ RunCompletes

----------------------------------------------------------------------------
\* The sidebar radio: the script reruns and renders page p.
Navigate(p) ==
    /\ session_keys # {}
    /\ pc = "idle"
    /\ p \in Pages
    /\ p # page
    /\ page' = p
    /\ inventory' = RenderInventory(p, Inventory)
    /\ SetView(p, Inventory, <<>>, "All", <<>>)
    /\ clicked' = Widget("Navigation", -1)
    /\ session_keys' = session_keys \cup SessionKeys
    /\ patients' = Patients
    /\ UNCHANGED <<clock>>
    /\ RunCompletes

----------------------------------------------------------------------------
\* Page 2, Analytics.

\* "Apply Filter": a success message only.
ApplyFilter ==
    /\ OnPage("Analytics")
    /\ clicked' = Widget("Apply Filter", -1)
    /\ session_keys' = session_keys \cup SessionKeys
    /\ patients' = Patients
    /\ inventory' = Inventory
    /\ UNCHANGED <<page, clock, viewVars>>
    /\ RunCompletes

----------------------------------------------------------------------------
\* Page 3, Inventory.  Every run of this page lists Filter(...) of the
\* inventory as it stands and then rewrites the total_value column.

\* A new text in "Search medication".
SearchInput(s) ==
    /\ OnPage("Inventory")
    /\ s \in SearchTexts
    /\ s # search
    /\ SetView(page, Inventory, s, filter_option, <<>>)
    /\ inventory' = RenderInventory(page, Inventory)
    /\ clicked' = Widget("Search medication", -1)
    /\ session_keys' = session_keys \cup SessionKeys
    /\ patients' = Patients
    /\ UNCHANGED <<page, clock>>
    /\ RunCompletes

\* A new choice in the "Filter" selectbox.
SelectFilter(opt) ==
    /\ OnPage("Inventory")
    /\ opt \in FilterOptions
    /\ opt # filter_option
    /\ SetView(page, Inventory, search, opt, <<>>)
    /\ inventory' = RenderInventory(page, Inventory)
    /\ clicked' = Widget("Filter", -1)
    /\ session_keys' = session_keys \cup SessionKeys
    /\ patients' = Patients
    /\ UNCHANGED <<page, clock>>
    /\ RunCompletes

\* reorder_qty = row['monthly_demand'] - row['current_stock']
reorderQuantity(row) == row.monthly_demand - row.current_stock

\* "Generate Reorder", key reorder_{idx}: the button exists for the listed
\* rows whose status is Low Stock; idx is the row's index label.
GenerateReorder(idx) ==
    /\ OnPage("Inventory")
    /\ \E n \in DOMAIN df_display :
          /\ df_display[n].idx = idx
          /\ df_display[n].row.status = "Low Stock"
          /\ SetView(page, Inventory, search, filter_option,
                                <<reorderQuantity(df_display[n].row)>>)
    /\ inventory' = RenderInventory(page, Inventory)
    /\ clicked' = Widget("reorder", idx)
    /\ session_keys' = session_keys \cup SessionKeys
    /\ patients' = Patients
    /\ UNCHANGED <<page, clock>>
    /\ RunCompletes

----------------------------------------------------------------------------
\* Page 4, Settings.

\* A button whose handler only shows a message.
MessageOnly(label) ==
    /\ OnPage("Settings")
    /\ clicked' = Widget(label, -1)
    /\ session_keys' = session_keys \cup SessionKeys
    /\ patients' = Patients
    /\ inventory' = Inventory
    /\ UNCHANGED <<page, clock, viewVars>>
    /\ RunCompletes

SaveChanges == MessageOnly("Save Changes")

SaveNotificationSettings == MessageOnly("Save Notification Settings")

ExportConsultations == MessageOnly("Export Consultations (CSV)")

ExportInventory == MessageOnly("Export Inventory (CSV)")

GenerateMonthlyReport == MessageOnly("Generate Monthly Report (PDF)")

ResetAllData_Deletes ==
    /\ OnPage("Settings")
    /\ patients' = <<>>
    /\ inventory' = <<>>
    /\ clicked' = Widget("Reset All Data", -1)
    /\ session_keys' = session_keys \cup SessionKeys
    /\ UNCHANGED <<page, clock, viewVars>>
    /\ RunCompletes

\* "Reset All Data": a checkbox and, once ticked, an error message.
ResetAllData == MessageOnly("Reset All Data")

\* "Clear Test patients": st.session_state.patients = []
ClearTestPatients ==
    /\ OnPage("Settings")
    /\ patients' = <<>>
    /\ clicked' = Widget("Clear Test Patients", -1)
    /\ session_keys' = session_keys \cup SessionKeys
    /\ inventory' = Inventory
    /\ UNCHANGED <<page, clock, viewVars>>
    /\ RunCompletes

----------------------------------------------------------------------------
Next ==
    \/ FirstRun
    \/ Rerun
    \/ AddUrgentPatient
    \/ AddModeratePatient
    \/ AddMildPatient
    \/ \E i \in enumerate(patients) : StockAvailable(i)
    \/ \E i \in enumerate(patients) : OutOfStock(i)
    \/ \E i \in enumerate(patients) : CallPatient(i)
    \/ \E i \in enumerate(patients) : SendWhatsApp(i)
    \/ \E i \in enumerate(patients) : MarkComplete(i)
    \/ \E p \in Pages : Navigate(p)
    \/ ApplyFilter
    \/ \E s \in SearchTexts : SearchInput(s)
    \/ \E opt \in FilterOptions : SelectFilter(opt)
    \/ \E idx \in enumerate(inventory) : GenerateReorder(idx)
    \/ SaveChanges
    \/ SaveNotificationSettings
    \/ ExportConsultations
    \/ ExportInventory
    \/ GenerateMonthlyReport
    \/ ClearTestPatients
    \/ ResetAllData

Spec == Init /\ [][Next]_vars

----------------------------------------------------------------------------
\* The status lambda on its own: a one-row frame with any stock figures, then
\* the assignment of the 'status' column.

InitStatusOf ==
    /\ \E cs \in 0 .. MaxStock, rp \in 0 .. MaxStock,
          md \in {0, MaxStock}, up \in {50, 300} :
            inventory = << Row(<<"O", "R", "S">>, cs, rp, md, up) >>
    /\ patients = <<>>
    /\ page = "Live Queue"
    /\ clock = 0
    /\ clicked = Widget("none", -1)
    /\ session_keys = SessionKeys
    /\ InitView
    /\ pc = "idle"
    /\ loop_i = 0
    /\ mutations = 0
    /\ shown = NoView

AssignStatusColumn ==
    /\ \A r \in DOMAIN inventory : "status" \notin DOMAIN inventory[r]
    /\ inventory' = WithStatusColumn(inventory)
    /\ UNCHANGED <<patients, page, clock, clicked, session_keys, viewVars,
                   runVars>>

NextStatusOf == AssignStatusColumn

SpecStatusOf == InitStatusOf /\ [][NextStatusOf]_vars

----------------------------------------------------------------------------
\* The Live Queue script run, statement by statement: a button press starts a
\* run, the run renders the counters, passes the three add buttons, then
\* walks the queue; the pressed button's st.button(...) returns True where
\* the run reaches it, and st.rerun() ends the run and starts a fresh one in
\* which no button is pressed.  A press is taken up between runs.

\* The keys of the two status buttons and the status each one sets.
StatusKeys == {"ok", "no"}

StatusFor(k) == IF k = "ok" THEN "Confirmed" ELSE "Referred"

InitRun ==
    /\ session_keys = SessionKeys
    /\ patients = <<>>
    /\ inventory = WithStatusColumn(InventorySeed)
    /\ page = "Live Queue"
    /\ clock = 0
    /\ clicked = Widget("none", -1)
    /\ InitView
    /\ pc = "idle"
    /\ loop_i = 0
    /\ mutations = 0
    /\ shown = Rendered(page, patients)

\* What no statement of the Live Queue page touches.
RunFrame == UNCHANGED <<inventory, page, session_keys, viewVars>>

\* The buttons whose handler reads datetime.now().
ClockKeys ==
    {"Add URGENT Patient", "Add MODERATE Patient", "Add MILD Patient",
     "ok", "no"}

\* A press of one of the buttons on screen: an add button, or a button of
\* the i-th card.
PressButton(k, i) ==
    /\ OnPage("Live Queue")
    /\ pc = "idle"
    /\ \/ /\ k \in {"Add URGENT Patient", "Add MODERATE Patient",
                    "Add MILD Patient"}
          /\ i = -1
       \/ /\ k \in {"ok", "no", "call", "wa", "done"}
          /\ i \in enumerate(shown.rows)
    /\ k \in ClockKeys => clock < MaxClock
    /\ clicked' = Widget(k, i)
    /\ pc' = "metrics"
    /\ loop_i' = 0
    /\ mutations' = 0
    /\ shown' = NoView
    /\ UNCHANGED <<patients, clock>>
    /\ RunFrame

\* st.metric("Urgent Cases", urgent_count), st.metric("Total in Queue", len)
RunMetrics ==
    /\ pc = "metrics"
    /\ shown' = [shown EXCEPT !.urgent = urgent_count(patients),
                              !.total = Len(patients)]
    /\ pc' = "add"
    /\ UNCHANGED <<patients, clock, clicked, loop_i, mutations>>
    /\ RunFrame

\* if st.button("Add URGENT Patient"): ... patients.insert(0, patient)
RunAddUrgent ==
    /\ pc = "add"
    /\ clicked = Widget("Add URGENT Patient", -1)
    /\ patients' = insert(patients, 0, NewPatient(0, clock))
    /\ clock' = clock + 1
    /\ mutations' = mutations + 1
    /\ pc' = "rerun"
    /\ UNCHANGED <<clicked, loop_i, shown>>
    /\ RunFrame

\* if st.button("Add MODERATE Patient"): ... patients.append(patient)
RunAddModerate ==
    /\ pc = "add"
    /\ clicked = Widget("Add MODERATE Patient", -1)
    /\ patients' = append(patients, NewPatient(1, clock))
    /\ clock' = clock + 1
    /\ mutations' = mutations + 1
    /\ pc' = "rerun"
    /\ UNCHANGED <<clicked, loop_i, shown>>
    /\ RunFrame

\* if st.button("Add MILD Patient"): ... patients.append(patient)
RunAddMild ==
    /\ pc = "add"
    /\ clicked = Widget("Add MILD Patient", -1)
    /\ patients' = append(patients, NewPatient(2, clock))
    /\ clock' = clock + 1
    /\ mutations' = mutations + 1
    /\ pc' = "rerun"
    /\ UNCHANGED <<clicked, loop_i, shown>>
    /\ RunFrame

\* None of the three add buttons returned True: on to the patient display.
RunNoAdd ==
    /\ pc = "add"
    /\ clicked.i # -1 \/ clicked.key = "none"
    /\ pc' = "for"
    /\ loop_i' = 0
    /\ UNCHANGED <<patients, clock, clicked, shown, mutations>>
    /\ RunFrame

\* for i, patient in enumerate(st.session_state.patients): the next patient's
\* card is displayed, or the list is exhausted and the run ends.
RunFor ==
    /\ pc = "for"
    /\ IF loop_i < Len(patients)
       THEN /\ shown' = [shown EXCEPT
                           !.rows = Append(@, Card(patients[loop_i + 1]))]
            /\ pc' = "buttons"
       ELSE /\ pc' = "idle"
            /\ UNCHANGED shown
    /\ UNCHANGED <<patients, clock, clicked, loop_i, mutations>>
    /\ RunFrame

\* if st.button("Stock Available", key=f"ok_{i}") and, for "no", Out of
\* Stock: patient['status'] = ...
RunStatus(k) ==
    /\ pc = "buttons"
    /\ k \in StatusKeys
    /\ clicked = Widget(k, loop_i)
    /\ patients' = [patients EXCEPT
                      ![loop_i + 1] = SetKey(@, "status", StatusFor(k))]
    /\ pc' = "stamp"
    /\ UNCHANGED <<clock, clicked, loop_i, shown, mutations>>
    /\ RunFrame

\* patient['response_time'] = datetime.now(), then the message
RunStamp ==
    /\ pc = "stamp"
    /\ patients' = [patients EXCEPT
                      ![loop_i + 1] = SetKey(@, "response_time", clock)]
    /\ clock' = clock + 1
    /\ mutations' = mutations + 1
    /\ pc' = "rerun"
    /\ UNCHANGED <<clicked, loop_i, shown>>
    /\ RunFrame

RunMarkComplete_NoRerun ==
    /\ pc = "buttons"
    /\ clicked = Widget("done", loop_i)
    /\ patients' = pop(patients, loop_i)
    /\ mutations' = mutations + 1
    /\ loop_i' = loop_i + 1
    /\ pc' = "for"
    /\ UNCHANGED <<clock, clicked, shown>>
    /\ RunFrame

\* if st.button("Mark Complete", key=f"done_{i}"): patients.pop(i), then the
\* message
RunMarkComplete ==
    /\ pc = "buttons"
    /\ clicked = Widget("done", loop_i)
    /\ patients' = pop(patients, loop_i)
    /\ mutations' = mutations + 1
    /\ pc' = "rerun"
    /\ UNCHANGED <<clock, clicked, loop_i, shown>>
    /\ RunFrame

\* The i-th card's other cases: Call Patient or Send WhatsApp returned True
\* (a message), or no button of this card did; then the separator and the
\* next iteration.
RunNextCard ==
    /\ pc = "buttons"
    /\ clicked.i = loop_i => clicked.key \in {"call", "wa"}
    /\ loop_i' = loop_i + 1
    /\ pc' = "for"
    /\ UNCHANGED <<patients, clock, clicked, shown, mutations>>
    /\ RunFrame

\* st.rerun(): the run stops here and the script runs again from the top,
\* with no button pressed.
RunRerun ==
    /\ pc = "rerun"
    /\ clicked' = Widget("none", -1)
    /\ pc' = "metrics"
    /\ loop_i' = 0
    /\ mutations' = 0
    /\ shown' = NoView
    /\ UNCHANGED <<patients, clock>>
    /\ RunFrame

NextRun ==
    \/ \E k \in {"Add URGENT Patient", "Add MODERATE Patient",
                 "Add MILD Patient"} : PressButton(k, -1)
    \/ \E k \in {"ok", "no", "call", "wa", "done"}, i \in enumerate(patients) :
          PressButton(k, i)
    \/ RunMetrics
    \/ RunAddUrgent
    \/ RunAddModerate
    \/ RunAddMild
    \/ RunNoAdd
    \/ RunFor
    \/ \E k \in StatusKeys : RunStatus(k)
    \/ RunStamp
    \/ RunMarkComplete
    \/ RunNextCard
    \/ RunRerun

SpecRun == InitRun /\ [][NextRun]_vars

----------------------------------------------------------------------------
\* Properties of the patient queue.

\* The step just taken was triggered by the widget with key k and index i.
Triggered(k, i) == clicked' = Widget(k, i) /\ vars' # vars

\* A case is identified by its arrival stamp: every add reads a later clock.
HasCase(list, t) == \E n \in DOMAIN list : list[n].time = t

\* C1: for every queued case, response_time is set if and only if the
\* case's status is not New, in every reachable state.
C1_RespondedIffNotNew ==
    \A n \in DOMAIN patients :
        ("response_time" \in DOMAIN patients[n]) <=> (patients[n].status # "New")

\* C1 witness: a responded case (stamped, Confirmed) beside a case still New
\* (no stamp), right after Stock Available.
C1_Witness ==
    /\ clicked.key = "ok"
    /\ \E n, m \in DOMAIN patients :
        /\ patients[n].status = "Confirmed"
        /\ "response_time" \in DOMAIN patients[n]
        /\ patients[m].status = "New"
        /\ "response_time" \notin DOMAIN patients[m]

\* No case leaves in this step: the queue is no shorter and holds every case
\* it held.
NoCaseLeaves ==
    /\ Len(patients') >= Len(patients)
    /\ \A n \in DOMAIN patients : HasCase(patients', patients[n].time)

\* This step is Mark Complete on the case at some index i, and removes only
\* that case.
LeavesByMarkComplete ==
    \E i \in enumerate(patients) :
        /\ Triggered("done", i)
        /\ Len(patients') = Len(patients) - 1
        /\ ~ HasCase(patients', patients[i + 1].time)
        /\ \A n \in DOMAIN patients :
              n # i + 1 => HasCase(patients', patients[n].time)

\* This step is Clear Test Patients, which empties the queue.
LeavesByClear ==
    /\ Triggered("Clear Test Patients", -1)
    /\ patients' = <<>>

\* C2 as stated: a case leaves the queue only through Mark Complete on that
\* case; no other action shortens the queue or drops a case.
C2_OnlyMarkCompleteRemoves ==
    [][NoCaseLeaves \/ LeavesByMarkComplete]_vars

\* C2 as amended: a case leaves the queue only through Mark Complete on that
\* case or through Clear Test Patients, which empties the queue; every other
\* action (Stock Available and Out of Stock included) keeps every case.
C2_OnlyMarkCompleteOrClearRemoves ==
    [][NoCaseLeaves \/ LeavesByMarkComplete \/ LeavesByClear]_vars

\* C2 witness: the queue just emptied by Clear Test Patients, two cases
\* having been added and one of them referred before.
C2_Witness ==
    /\ clicked = Widget("Clear Test Patients", -1)
    /\ patients = <<>>
    /\ clock >= 3

\* C3, the step: an add grows the queue by exactly one; the URGENT button puts
\* the new case at index 0 and shifts every other case by one, the MODERATE
\* and MILD buttons put it at the end and leave every other case in place.
EnqueueEffect ==
    /\ Triggered("Add URGENT Patient", -1) =>
        /\ Len(patients') = Len(patients) + 1
        /\ patients'[1].priority = "URGENT"
        /\ patients'[1].time = clock
        /\ \A n \in DOMAIN patients : patients'[n + 1] = patients[n]
    /\ \A k \in {"Add MODERATE Patient", "Add MILD Patient"} :
        Triggered(k, -1) =>
        /\ Len(patients') = Len(patients) + 1
        /\ patients'[Len(patients')].priority =
              (IF k = "Add MODERATE Patient" THEN "MODERATE" ELSE "LOW")
        /\ patients'[Len(patients')].time = clock
        /\ \A n \in DOMAIN patients : patients'[n] = patients[n]

\* The queue holds exactly the cases that arrived at 0, 1, 2 with these
\* priorities (three adds and nothing else since the session began).
Arrived(p0, p1, p2) ==
    /\ Len(patients) = 3
    /\ clock = 3
    /\ \A t \in 0 .. 2 : \E n \in 1 .. 3 :
          /\ patients[n].time = t
          /\ patients[n].priority = <<p0, p1, p2>>[t + 1]

\* C3, the example: A(LOW), B(URGENT), C(MODERATE) added in that order are
\* listed B, A, C.
EnqueueExample ==
    Arrived("LOW", "URGENT", "MODERATE") =>
        /\ patients[1].time = 1
        /\ patients[2].time = 0
        /\ patients[3].time = 2

\* C3: enqueue grows the queue by exactly one, URGENT at index 0 and
\* MODERATE/LOW at the end, the other cases keeping their order; and the
\* example yields [B, A, C].
C3_Enqueue == [][EnqueueEffect]_vars /\ []EnqueueExample

\* C3 witness: the example's queue, right after C was added.
C3_Witness ==
    /\ Arrived("LOW", "URGENT", "MODERATE")
    /\ clicked = Widget("Add MODERATE Patient", -1)
    /\ patients[1].name = "Aisha Musa"
    /\ patients[3].name = "Chukwudi Obi"

\* C4: every URGENT case stands before every MODERATE/LOW case that was
\* enqueued before it.
C4_UrgentBeforeEarlierNonUrgent ==
    \A n, m \in DOMAIN patients :
        ( /\ patients[n].priority = "URGENT"
          /\ patients[m].priority \in {"MODERATE", "LOW"}
          /\ patients[m].time < patients[n].time ) => n < m

\* C4 witness: A(LOW) then B(URGENT) gives [B, A].
C4_Witness ==
    /\ Len(patients) = 2
    /\ patients[1].priority = "URGENT" /\ patients[1].time = 1
    /\ patients[2].priority = "LOW" /\ patients[2].time = 0

----------------------------------------------------------------------------
\* Properties of the status buttons.

\* C5 as stated: Stock Available / Out of Stock on a case that has already
\* been responded to leaves its response_time unchanged.
C5_StampOnlyWhenNew ==
    [][\A i \in enumerate(patients), k \in StatusKeys :
        (Triggered(k, i) /\ patients[i + 1].status # "New") =>
            patients'[i + 1].response_time = patients[i + 1].response_time]_vars

\* C5 as amended: Stock Available / Out of Stock stamp response_time with the
\* time of the press whatever the previous status; on a case already
\* responded to, the earlier stamp is overwritten by this later one.
C5_StampOnEveryPress ==
    [][\A i \in enumerate(patients), k \in StatusKeys :
        Triggered(k, i) =>
            /\ patients'[i + 1].response_time = clock
            /\ patients[i + 1].status # "New" =>
                  patients'[i + 1].response_time
                      > patients[i + 1].response_time]_vars

\* C5 witness: the case added at 0, alone in the queue, carrying the stamp of
\* an Out of Stock pressed at 2.
C5_Witness ==
    /\ clicked = Widget("no", 0)
    /\ Len(patients) = 1
    /\ clock = 3
    /\ patients[1].time = 0
    /\ patients[1].status = "Referred"
    /\ patients[1].response_time = 2

\* C6: a status button on the case at index i sets that case's status to the
\* button's status whatever it was, and changes nothing else but that case's
\* response_time: same length, same position, same other fields, same other
\* cases.
C6_SetStatusFrame ==
    [][\A i \in enumerate(patients), k \in StatusKeys :
        Triggered(k, i) =>
            /\ Len(patients') = Len(patients)
            /\ patients'[i + 1].status = StatusFor(k)
            /\ DOMAIN patients'[i + 1]
                  = (DOMAIN patients[i + 1]) \cup {"response_time"}
            /\ \A f \in (DOMAIN patients[i + 1]) \ {"status", "response_time"} :
                  patients'[i + 1][f] = patients[i + 1][f]
            /\ \A n \in DOMAIN patients :
                  n # i + 1 => patients'[n] = patients[n]
            /\ inventory' = inventory
            /\ page' = page]_vars

\* C6 witness: the second of two cases just referred, the first untouched
\* and still New.
C6_Witness ==
    /\ clicked = Widget("no", 1)
    /\ Len(patients) = 2
    /\ clock = 3
    /\ patients[2].status = "Referred"
    /\ patients[2].response_time = 2
    /\ patients[1].status = "New"

\* C7: Mark Complete on index i of a queue of length n leaves length n-1:
\* the cases before i stay where they were, each case after i moves up one
\* place, all unmodified.
C7_RemoveEffect ==
    [][\A i \in enumerate(patients) :
        Triggered("done", i) =>
            /\ Len(patients') = Len(patients) - 1
            /\ \A n \in 1 .. i : patients'[n] = patients[n]
            /\ \A n \in (i + 1) .. (Len(patients) - 1) :
                  patients'[n] = patients[n + 1]]_vars

\* C7 witness: the middle one of three cases was just removed.
C7_Witness ==
    /\ clicked = Widget("done", 1)
    /\ Len(patients) = 2
    /\ clock = 3

\* C9: a case keeps the priority it was enqueued with: a case present before
\* and after a step has the same priority, and a case that enters has the
\* priority of the button that added it.
C9_PriorityFixed ==
    [][/\ \A n \in DOMAIN patients, m \in DOMAIN patients' :
            patients'[m].time = patients[n].time =>
                patients'[m].priority = patients[n].priority
       /\ \A m \in DOMAIN patients' :
            ~ HasCase(patients, patients'[m].time) =>
                patients'[m].priority =
                    CASE clicked'.key = "Add URGENT Patient" -> "URGENT"
                      [] clicked'.key = "Add MODERATE Patient" -> "MODERATE"
                      [] clicked'.key = "Add MILD Patient" -> "LOW"
                      [] OTHER -> "none"]_vars

\* C9 witness: an URGENT case, still URGENT right after Out of Stock on it.
C9_Witness ==
    \E i \in enumerate(patients) :
        /\ clicked = Widget("no", i)
        /\ patients[i + 1].status = "Referred"
        /\ patients[i + 1].priority = "URGENT"

----------------------------------------------------------------------------
\* Properties of the inventory.

\* C10: the status of a row is Low Stock exactly when current_stock <=
\* reorder_point and OK otherwise, whatever the row's other fields: Low Stock
\* at current_stock = reorder_point, OK at reorder_point + 1.
C10_StatusOfBoundary ==
    \A r \in DOMAIN inventory :
        "status" \in DOMAIN inventory[r] =>
            /\ inventory[r].status \in {"Low Stock", "OK"}
            /\ inventory[r].status = "Low Stock"
                  <=> inventory[r].current_stock <= inventory[r].reorder_point
            /\ inventory[r].current_stock = inventory[r].reorder_point
                  => inventory[r].status = "Low Stock"
            /\ inventory[r].current_stock = inventory[r].reorder_point + 1
                  => inventory[r].status = "OK"

\* C10 witness: a row at the boundary, marked Low Stock.
C10_Witness ==
    \E r \in DOMAIN inventory :
        /\ "status" \in DOMAIN inventory[r]
        /\ inventory[r].current_stock = inventory[r].reorder_point
        /\ inventory[r].status = "Low Stock"

\* The status the stock figures of a row call for.
StatusDue(row) ==
    IF row.current_stock <= row.reorder_point THEN "Low Stock" ELSE "OK"

\* C11: the stored status is never out of sync: for every inventory item, and
\* for every row the Current Stock tab lists (what the filter and the reorder
\* button read), status is Low Stock if the item's current_stock <=
\* reorder_point and OK otherwise; a reorder is only ever generated for an
\* item that is low by its current figures.
C11_StatusInSync ==
    /\ \A r \in DOMAIN inventory :
          inventory[r].status = StatusDue(inventory[r])
    /\ \A n \in DOMAIN df_display :
          df_display[n].row.status = StatusDue(inventory[df_display[n].idx + 1])
    /\ reorder_qty # <<>> => StatusDue(inventory[clicked.i + 1]) = "Low Stock"

\* C11 witness: the Inventory page filtered to Low Stock lists exactly the
\* two seeded items at or under their reorder point, after a reorder was
\* generated for one of them.
C11_Witness ==
    /\ page = "Inventory"
    /\ filter_option = "Low Stock"
    /\ search = <<>>
    /\ Len(df_display) = 2
    /\ df_display[1].idx = 1
    /\ df_display[2].idx = 2
    /\ clicked = Widget("reorder", 2)
    /\ reorder_qty = <<17>>
    /\ \A r \in DOMAIN inventory : "total_value" \in DOMAIN inventory[r]

----------------------------------------------------------------------------
\* Properties of the session as a whole.

\* The keys of the buttons whose feature is not implemented.
PlaceholderKeys ==
    {"call", "wa", "Apply Filter", "Save Changes",
     "Save Notification Settings", "Export Consultations (CSV)",
     "Export Inventory (CSV)", "Generate Monthly Report (PDF)", "reorder",
     "Reset All Data"}

\* C13: a press of Call Patient, Send WhatsApp, Apply Filter, Save Changes,
\* Save Notification Settings, an Export button, Generate Monthly Report,
\* Generate Reorder or Reset All Data leaves the patient queue and the
\* inventory table exactly as they were.
C13_PlaceholdersChangeNothing ==
    [][(clicked'.key \in PlaceholderKeys) =>
          /\ patients' = patients
          /\ inventory' = inventory
          /\ clock' = clock
          /\ page' = page]_vars

\* C13 witness: a reorder was just generated while a responded case is
\* queued.
C13_Witness ==
    /\ clicked.key = "reorder"
    /\ reorder_qty # <<>>
    /\ Len(patients) >= 1
    /\ patients[1].status = "Confirmed"

\* The six columns of an inventory row that carry the stock data.
StockColumns ==
    {"medication", "current_stock", "reorder_point", "monthly_demand",
     "unit_price", "status"}

\* A frame cut down to its six stock columns.
StockData(df) == [r \in DOMAIN df |-> [k \in StockColumns |-> df[r][k]]]

\* The keys of the buttons that change the queue.
QueueKeys ==
    {"Add URGENT Patient", "Add MODERATE Patient", "Add MILD Patient",
     "ok", "no", "done", "Clear Test Patients"}

\* C14: the first run of a session creates the queue empty and the inventory
\* seeded (ten items, status set); from then on no run initialises again, no
\* run changes the six stock columns of the inventory, and a run that is a
\* re-render or a page navigation (anything but a queue button) leaves the
\* patient queue as it was.
C14_InitialisedOnce ==
    [][/\ session_keys = {} =>
            /\ session_keys' = SessionKeys
            /\ patients' = <<>>
            /\ StockData(inventory') = StockData(WithStatusColumn(InventorySeed))
       /\ session_keys # {} =>
            /\ session_keys' = session_keys
            /\ StockData(inventory') = StockData(inventory)
            /\ Len(inventory') = Len(InventorySeed)
            /\ clicked'.key \notin QueueKeys => patients' = patients]_vars

\* C14 witness: two cases queued, one of them answered, then the Inventory
\* page (which writes the total_value column) and from it the Settings page
\* were opened, and both cases are still queued.
C14_Witness ==
    /\ clicked = Widget("Navigation", -1)
    /\ page = "Settings"
    /\ session_keys = SessionKeys
    /\ Len(patients) = 2
    /\ \E n \in DOMAIN patients : patients[n].status = "Confirmed"
    /\ \A r \in DOMAIN inventory : "total_value" \in DOMAIN inventory[r]

\* The entries of a listed frame: index label and the six stock columns.
Listed(d) ==
    [n \in DOMAIN d |->
        [idx |-> d[n].idx, row |-> [k \in StockColumns |-> d[n].row[k]]]]

\* C15: the Current Stock tab lists exactly the items whose medication
\* contains the search text as a case-insensitive substring (all items when
\* the search is empty) and whose status equals the selected status (all
\* when the filter is "All"), in the inventory's order, and the inventory
\* keeps its ten seeded rows.
C15_FilterSubstringAndStatus ==
    OnPage("Inventory") =>
        /\ Listed(df_display) =
              Listed(SelectSeq(copy(inventory), LAMBDA e :
                  /\ search = <<>> \/ contains_Literal(e.row.medication, search)
                  /\ filter_option = "All" \/ e.row.status = filter_option))
        /\ StockData(inventory) = StockData(WithStatusColumn(InventorySeed))

----------------------------------------------------------------------------
\* Properties of the script run.

\* Every case carries a response stamp exactly when it has left New.
FullyApplied(list) ==
    \A n \in DOMAIN list :
        ("response_time" \in DOMAIN list[n]) <=> (list[n].status # "New")

\* Between the statements of a run: at most one mutation has been made; a
\* status change is half-applied only between its own two assignments; a run
\* that reached st.rerun() made its mutation; and a run that has ended shows
\* the queue exactly as it is.
RunInv ==
    /\ mutations <= 1
    /\ pc # "stamp" => FullyApplied(patients)
    /\ pc = "rerun" => mutations = 1
    /\ pc = "idle" => shown = View(patients) /\ mutations = 0

\* One statement of a run: a change of the queue is followed by nothing but
\* the rest of the same handler and st.rerun(); nothing is put on screen by
\* a run that has already changed the queue; st.rerun() starts a fresh
\* render of the queue as the handler left it, with no button pressed.
RunStep ==
    /\ patients' # patients => pc' \in {"stamp", "rerun"}
    /\ pc = "stamp" => pc' = "rerun"
    /\ (shown' # shown /\ shown' # NoView) =>
          mutations' = 0 /\ patients' = patients
    /\ pc = "rerun" =>
          /\ pc' = "metrics"
          /\ shown' = NoView
          /\ clicked' = Widget("none", -1)
          /\ patients' = patients

\* C16: each queue-mutating button press (add patient, Stock Available, Out
\* of Stock, Mark Complete) runs to completion before the next render: a
\* script run applies at most one action's mutation, applies it in full
\* (status and response time together), and is then aborted by st.rerun(),
\* so that the next completed render shows the queue exactly as that action
\* left it.
C16_RunsToCompletion == [] RunInv /\ [][RunStep]_vars

\* C16 witness: two cases were added (stamps 0 and 1) and one of them was
\* answered Out of Stock at 2; the run after the rerun has ended and shows
\* both cases.
C16_Witness ==
    /\ pc = "idle"
    /\ clicked = Widget("none", -1)
    /\ Len(patients) = 2
    /\ shown = View(patients)
    /\ \E n \in DOMAIN patients :
          /\ patients[n].status = "Referred"
          /\ patients[n].response_time = 2

----------------------------------------------------------------------------
\* Properties of the queue's order.

\* C17: in every reachable state the queue is a block of URGENT cases
\* followed by a block of MODERATE/LOW cases: no URGENT case stands after a
\* non-URGENT one, the URGENT cases stand newest first and the non-URGENT
\* cases oldest first, whatever adds, status changes, Mark Complete and Clear
\* came before.
C17_UrgentBlockThenRest ==
    \A n, m \in DOMAIN patients :
        n < m =>
            /\ patients[m].priority = "URGENT" =>
                  /\ patients[n].priority = "URGENT"
                  /\ patients[n].time > patients[m].time
            /\ patients[n].priority # "URGENT" =>
                  /\ patients[m].priority # "URGENT"
                  /\ patients[n].time < patients[m].time

\* C17 witness: URGENT, MODERATE/LOW and URGENT cases were added at 0, 1 and
\* 2 and the non-URGENT one was marked complete: the later URGENT case stands
\* before the earlier one.
C17_Witness ==
    /\ clicked.key = "done"
    /\ Len(patients) = 2
    /\ patients[1].priority = "URGENT" /\ patients[1].time = 2
    /\ patients[2].priority = "URGENT" /\ patients[2].time = 0

\* The other block is reached too: two non-URGENT cases, the earlier first,
\* behind an URGENT case added last.
NonUrgentBlockReached ==
    /\ Len(patients) = 3
    /\ patients[1].priority = "URGENT" /\ patients[1].time = 2
    /\ patients[2].priority = "MODERATE" /\ patients[2].time = 0
    /\ patients[3].priority = "LOW" /\ patients[3].time = 1

----------------------------------------------------------------------------
\* Properties of a case's status.

\* The values the status key takes.
Statuses == {"New", "Confirmed", "Referred"}

\* C18: a case's status is always one of New, Confirmed, Referred; a case
\* is New when it enters the queue; a case that has left New is never New
\* again while it is queued; Stock Available and Out of Stock move a case to
\* Confirmed and Referred from whichever status it has.
C18_StatusNeverBackToNew ==
    /\ [] (\A n \in DOMAIN patients : patients[n].status \in Statuses)
    /\ [][/\ \A m \in DOMAIN patients' :
                ~ HasCase(patients, patients'[m].time) =>
                    patients'[m].status = "New"
          /\ \A n \in DOMAIN patients, m \in DOMAIN patients' :
                (patients'[m].time = patients[n].time
                    /\ patients[n].status # "New") =>
                        patients'[m].status \in {"Confirmed", "Referred"}
          /\ \A i \in enumerate(patients), k \in StatusKeys :
                Triggered(k, i) => patients'[i + 1].status = StatusFor(k)]_vars

\* C18 witness: two cases added at 0 and 1; one of them answered at 2 while
\* the other is still New.
C18_Witness ==
    /\ clock = 3
    /\ Len(patients) = 2
    /\ \E n, m \in DOMAIN patients :
          /\ patients[n].status = "Referred"
          /\ patients[n].response_time = 2
          /\ patients[m].status = "New"

----------------------------------------------------------------------------
\* Properties of the queue's entries as objects.

\* The case is template k's data under the keys the handlers add.
CopyOf(patient, k) ==
    /\ DOMAIN patient \subseteq
          DOMAIN SAMPLE_PATIENTS[k] \cup {"time", "status", "response_time"}
    /\ \A key \in DOMAIN SAMPLE_PATIENTS[k] :
          patient[key] = SAMPLE_PATIENTS[k][key]

\* C19: every queued case is its own copy of a sample template: the entries
\* are pairwise distinct even when made from the same template, each carries
\* its template's data unchanged, a status change on one entry leaves every
\* other entry as it was, and every newly added case is the template with
\* its arrival time, status New and no response time, whatever happened
\* before.
C19_IndependentCopies ==
    /\ [] (/\ \A n, m \in DOMAIN patients : n # m => patients[n] # patients[m]
           /\ \A n \in DOMAIN patients :
                 \E k \in DOMAIN SAMPLE_PATIENTS : CopyOf(patients[n], k))
    /\ [][/\ \A i \in enumerate(patients), k \in StatusKeys :
                Triggered(k, i) =>
                    /\ Len(patients') = Len(patients)
                    /\ \A n \in DOMAIN patients :
                          n # i + 1 => patients'[n] = patients[n]
          /\ \A m \in DOMAIN patients' :
                ~ HasCase(patients, patients'[m].time) =>
                    /\ \E k \in DOMAIN SAMPLE_PATIENTS :
                          patients'[m] =
                              SetKey(SetKey(SAMPLE_PATIENTS[k], "time", clock),
                                     "status", "New")
                    /\ "response_time" \notin DOMAIN patients'[m]]_vars

\* C19 witness: the URGENT sample was added at 0, answered Stock Available
\* at 1, and added again at 2: the second entry is New and unstamped, the
\* first keeps its answer.
C19_Witness ==
    /\ clicked = Widget("Add URGENT Patient", -1)
    /\ Len(patients) = 2
    /\ patients[1].name = patients[2].name
    /\ patients[1].time = 2
    /\ patients[1].status = "New"
    /\ "response_time" \notin DOMAIN patients[1]
    /\ patients[2].time = 0
    /\ patients[2].status = "Confirmed"
    /\ patients[2].response_time = 1

====
